---- MODULE Spec2Model ----
(***************************************************************************)
(* my-menu: the in-memory menu catalogue of the koishi plugin and its      *)
(* command handlers (src/src/index.ts), with the two earlier variants of   *)
(* the mutating handlers (src/unnamed/part_000, src/unnamed/part_001).     *)
(*                                                                         *)
(* Strings are sequences of one-character strings, so that toLowerCase,    *)
(* the slug regexes and substring tests are computed and not assumed.      *)
(* A CJK code point is written as the token "uXXXX".                       *)
(* An optional value (an option that may be undefined) is a sequence of    *)
(* length 0 (undefined) or 1 (the value).                                  *)
(***************************************************************************)
EXTENDS Integers, Sequences, FiniteSets, TLC

VARIABLES
    variant,    \* which source file's handlers run: "index", "part_000", "part_001"
    config,     \* the plugin configuration (itemsPerPage, enableCategories, ...)
    menuItems,  \* the Map: a sequence of [key, val] in insertion order
    now,        \* Date.now(), in milliseconds
    disposed,   \* the plugin's dispose handler has run
    last,       \* the command whose reply is being sent: its arguments and return value
    pending     \* the handlers suspended at an await, in the order they were called

vars == <<variant, config, menuItems, now, disposed, last, pending>>

----------------------------------------------------------------------------
(* Bounds of the model *)

MaxClock == 2
MaxSeedItems == 12
MaxItemsPerPage == 6
MaxPage == 3

(* Program constants *)

MinItemsPerPage == 5
AdminAuthority == 3
Radix == 36
MinImageWidth == 800
MaxImageWidth == 2000
DefaultImageWidth == 1600
MinImageColumnWidth == 200
MaxImageColumnWidth == 600
DefaultImageColumnWidth == 400
GapSize == 12
BodyPadding == 8
ContainerMaxWidth == 1100
ContainerPadding == 18

----------------------------------------------------------------------------
(* Optional values and JavaScript truthiness *)

Absent == <<>>
Some(v) == <<v>>
IsSome(o) == Len(o) = 1
Val(o) == o[1]

\* a string option is truthy when it is supplied and not ""
TruthyStr(o) == IsSome(o) /\ Len(Val(o)) > 0
\* a number option is truthy when it is supplied and not 0
TruthyNum(o) == IsSome(o) /\ Val(o) # 0

----------------------------------------------------------------------------
(* Characters *)

UpperCase == <<"A","B","C","D","E","F","G","H","I","J","K","L","M",
               "N","O","P","Q","R","S","T","U","V","W","X","Y","Z">>
LowerCase == <<"a","b","c","d","e","f","g","h","i","j","k","l","m",
               "n","o","p","q","r","s","t","u","v","w","x","y","z">>
Digits == <<"0","1","2","3","4","5","6","7","8","9">>
Digits36 == Digits \o LowerCase
CJKChars == {"u7b7e", "u5230", "u4e00", "u8a00", "u70b9", "u6b4c",
             "u5a31", "u4e50", "u65e5", "u5e38", "u5de5", "u5177"}

Range(s) == {s[i] : i \in 1..Len(s)}

\* the first position of x in s
PosOf(s, x) == CHOOSE i \in 1..Len(s) : s[i] = x /\ \A j \in 1..(i - 1) : s[j] # x

\* String.prototype.toLowerCase, one character
LowerChar(c) ==
    IF \E i \in 1..Len(UpperCase) : UpperCase[i] = c
    THEN LowerCase[CHOOSE i \in 1..Len(UpperCase) : UpperCase[i] = c]
    ELSE c

ToLowerCase(s) == [i \in 1..Len(s) |-> LowerChar(s[i])]

\* String.prototype.includes
Includes(s, t) ==
    \E i \in 0..(Len(s) - Len(t)) : SubSeq(s, i + 1, i + Len(t)) = t

----------------------------------------------------------------------------
(* The Map menuItems *)

MapKeys(m) == [i \in 1..Len(m) |-> m[i].key]
MapValues(m) == [i \in 1..Len(m) |-> m[i].val]
MapSize(m) == Len(m)
MapHas(m, k) == \E i \in 1..Len(m) : m[i].key = k
MapIndex(m, k) == CHOOSE i \in 1..Len(m) : m[i].key = k
\* a get that falls back to the first entry
MapGetOrFirst(m, k) ==
    IF MapHas(m, k) THEN Some(m[MapIndex(m, k)].val)
    ELSE IF Len(m) > 0 THEN Some(m[1].val) ELSE Absent

\* Map.prototype.get, as an optional value (undefined when the key is absent)
MapGet(m, k) == IF MapHas(m, k) THEN Some(m[MapIndex(m, k)].val) ELSE Absent

\* a set that never looks for the key
MapSetAlwaysAppend(m, k, v) == Append(m, [key |-> k, val |-> v])

\* Map.prototype.set: an existing key keeps its position and gets the value
MapSet(m, k, v) ==
    IF MapHas(m, k)
    THEN [m EXCEPT ![MapIndex(m, k)] = [key |-> k, val |-> v]]
    ELSE Append(m, [key |-> k, val |-> v])

\* Map.prototype.delete
MapDelete(m, k) ==
    IF MapHas(m, k)
    THEN SubSeq(m, 1, MapIndex(m, k) - 1) \o SubSeq(m, MapIndex(m, k) + 1, Len(m))
    ELSE m

\* Map.prototype.clear
MapClear(m) == <<>>

RECURSIVE SeedFrom(_, _)
SeedFrom(m, items) ==
    IF items = <<>> THEN m
    ELSE SeedFrom(MapSet(m, Head(items).id, Head(items)), Tail(items))

\* config.defaultItems.forEach(item => menuItems.set(item.id, item))
Seed(items) == SeedFrom(<<>>, items)

----------------------------------------------------------------------------
(* Identifier generation: menu.add *)

IsSlugChar(c) == c \in Range(LowerCase) \cup Range(Digits) \cup CJKChars

\* .replace(/[^a-z0-9<CJK U+4E00..U+9FA5>]/g, '-')
ReplaceOther(s) == [i \in 1..Len(s) |-> IF IsSlugChar(s[i]) THEN s[i] ELSE "-"]

RECURSIVE CollapseDashes(_)
\* .replace(/-+/g, '-')
CollapseDashes(s) ==
    IF Len(s) <= 1 THEN s
    ELSE IF s[1] = "-" /\ s[2] = "-" THEN CollapseDashes(Tail(s))
         ELSE <<s[1]>> \o CollapseDashes(Tail(s))

\* .replace(/^-|-$/g, '')
StripDashes(s) ==
    LET t == IF Len(s) > 0 /\ s[1] = "-" THEN Tail(s) ELSE s
    IN  IF Len(t) > 0 /\ t[Len(t)] = "-" THEN SubSeq(t, 1, Len(t) - 1) ELSE t

Slug(name) == StripDashes(CollapseDashes(ReplaceOther(ToLowerCase(name))))

RECURSIVE ToBase36(_)
\* Number.prototype.toString(36), for a non-negative integer
ToBase36(n) ==
    IF n < Radix THEN <<Digits36[n + 1]>>
    ELSE ToBase36(n \div Radix) \o <<Digits36[(n % Radix) + 1]>>

\* the id of a new item: the slug, '-', Date.now().toString(36)
GenerateId(name, t) == Slug(name) \o <<"-">> \o ToBase36(t)

----------------------------------------------------------------------------
(* Authorization *)

AdminUsers == {"123456789", "987654321"}

\* userId "" stands for a session without a (truthy) userId;
\* authority 0 stands for session.user?.authority being undefined or 0
HasUserId(session) == session.userId # ""

\* what the external ctx.permissions does for one call:
\* "absent" (ctx.permissions is falsy), "true", "false", or "throws"
TestOutcomes == {"absent", "true", "false", "throws"}

Resolved(b) == [rejected |-> FALSE, value |-> b]

\* async function checkPermission(session, permission)
CheckPermission(session, test) ==
    IF session.authority # 0 /\ session.authority >= AdminAuthority
    THEN Resolved(TRUE)
    ELSE IF test \in {"true", "false"}
         THEN Resolved(test = "true")
         \* ctx.permissions absent, or test threw and the catch swallowed it
         ELSE Resolved(session.userId \in AdminUsers)

\* whether the handler's test of checkPermission's result is awaited
Awaits(v) == v = "index"

\* a gate that lets every caller through
PermissionGateNoCheck(v, session, test) == "pass"

\* if (!session?.userId || !(await checkPermission(...))) return denied
\* in part_000 and part_001 the Promise itself is tested, and it is truthy
PermissionGate(v, session, test) ==
    IF ~HasUserId(session) THEN "denied"
    ELSE IF Awaits(v)
         THEN LET r == CheckPermission(session, test)
              IN  IF r.rejected THEN "throws"
                  ELSE IF r.value THEN "pass" ELSE "denied"
         ELSE "pass"

----------------------------------------------------------------------------
(* Query: filter, sort, paginate *)

\* items.filter(item => item.enabled)
EnabledItems(items) == SelectSeq(items, LAMBDA item : item.enabled)

\* a filter that lets every item through
ItemsOfAnyCategory(items, category) == items

\* items.filter(item => item.category === category)
ItemsOfCategory(items, category) ==
    SelectSeq(items, LAMBDA item : item.category = category)

\* the position at which the stable sort puts x: after every element
\* that does not compare greater than x
RECURSIVE InsertByOrder(_, _)
InsertByOrder(sorted, x) ==
    IF sorted = <<>> THEN <<x>>
    ELSE IF Head(sorted).order - x.order > 0 THEN <<x>> \o sorted
         ELSE <<Head(sorted)>> \o InsertByOrder(Tail(sorted), x)

RECURSIVE SortFrom(_, _)
SortFrom(sorted, rest) ==
    IF rest = <<>> THEN sorted
    ELSE SortFrom(InsertByOrder(sorted, Head(rest)), Tail(rest))

\* a sort that puts equal orders in the reverse of their input order
SortTiesReversed(items) == SortFrom(<<>>, [i \in 1..Len(items) |-> items[Len(items) + 1 - i]])

\* items.sort((a, b) => a.order - b.order), a stable sort
SortByOrder(items) == SortFrom(<<>>, items)

Min(a, b) == IF a < b THEN a ELSE b
Max(a, b) == IF a > b THEN a ELSE b

\* the index Array.prototype.slice derives from an integer argument
RelativeIndex(i, len) == IF i < 0 THEN Max(len + i, 0) ELSE Min(i, len)

\* Array.prototype.slice(start, end)
Slice(s, start, end) ==
    SubSeq(s, RelativeIndex(start, Len(s)) + 1, RelativeIndex(end, Len(s)))

\* Math.ceil(n / d), for n >= 0 and d > 0
CeilDiv(n, d) == (n + d - 1) \div d

\* a category test that asks for the whole category
MatchesCategoryExact(item, category) == item.category = category

\* item.category.toLowerCase().includes(category.toLowerCase())
MatchesCategory(item, category) ==
    Includes(ToLowerCase(item.category), ToLowerCase(category))

\* filteredItems of the menu command, after the sort
FilteredItems(m, category) ==
    LET enabled == EnabledItems(MapValues(m))
        inCat == IF TruthyStr(category)
                 THEN SelectSeq(enabled,
                                LAMBDA item : MatchesCategory(item, Val(category)))
                 ELSE enabled
    IN  SortByOrder(inCat)

\* a start index that takes pages as 0-indexed
StartIndexFromPage(page, perPage) == page * perPage

StartIndex(page, perPage) == (page - 1) * perPage

\* pageItems of the paginated branch
PageWindow(filtered, page, perPage) ==
    Slice(filtered, StartIndex(page, perPage), StartIndex(page, perPage) + perPage)

\* pageItems
PageItems(filtered, page, perPage, all) ==
    IF all THEN filtered ELSE PageWindow(filtered, page, perPage)

\* currentPage
CurrentPage(page, all) == IF all THEN 1 ELSE page

\* totalPagesValue
TotalPagesValue(filtered, perPage, all) ==
    IF all THEN 1 ELSE CeilDiv(Len(filtered), perPage)

\* totalPagesForText
TotalPagesForText(filtered, perPage) == CeilDiv(Len(filtered), perPage)

RECURSIVE Distinct(_)
\* [...new Set(seq)]: first occurrences, in order
Distinct(s) ==
    IF s = <<>> THEN <<>>
    ELSE LET d == Distinct(SubSeq(s, 1, Len(s) - 1))
         IN  IF s[Len(s)] \in Range(d) THEN d ELSE Append(d, s[Len(s)])

\* the category groups of a page, or one unlabelled group
Groups(items, enableCategories) ==
    IF enableCategories
    THEN LET cats == Distinct([i \in 1..Len(items) |-> items[i].category])
         IN  [g \in 1..Len(cats) |->
                 [labelled |-> TRUE, category |-> cats[g],
                  items |-> ItemsOfCategory(items, cats[g])]]
    ELSE << [labelled |-> FALSE, category |-> <<>>, items |-> items] >>

----------------------------------------------------------------------------
(* Items and the values the commands are run with *)

Item(id, name, description, command, category, enabled, order) ==
    [id |-> id, name |-> name, description |-> description, command |-> command,
     category |-> category, enabled |-> enabled, order |-> order]

\* '暂无描述'
PlaceholderDescription == <<"u6682", "u65e0">>
\* '通用功能'
DefaultCategory == <<"u901a", "u7528">>

SeedS == Item(<<"s">>, <<"S">>, <<"d">>, <<"#", "s">>, <<"T">>, TRUE, 1)
\* a configured item with the id of SeedS, listed before it
SeedS2 == Item(<<"s">>, <<"S", "2">>, <<"d">>, <<"#", "s">>, <<"T">>, TRUE, 2)
\* a configured item whose id has the shape of a generated one
SeedG == Item(<<"a", "-", "1">>, <<"G">>, <<"g">>, <<"#", "g">>, <<"u5de5">>, FALSE, 1)

\* the values of config.defaultItems the store is seeded from
SeedConfigs == { <<SeedS>>, <<SeedS, SeedG>>, <<SeedS2, SeedS>> }

\* the default value of config.defaultItems
DefaultItems ==
    << Item(<<"s", "i", "g", "n", "i", "n">>,
            <<"u7b7e", "u5230">>,
            <<"u6bcf", "u65e5", "u7b7e", "u5230", "u83b7", "u53d6", "u79ef", "u5206">>,
            <<"#", "u7b7e", "u5230">>,
            <<"u65e5", "u5e38">>, TRUE, 1),
       Item(<<"h", "i", "t", "o", "k", "o", "t", "o">>,
            <<"u4e00", "u8a00">>,
            <<"u83b7", "u53d6", "u4e00", "u6761", "u968f", "u673a", "u540d", "u8a00",
              "u6216", "u53e5", "u5b50">>,
            <<"#", "u4e00", "u8a00">>,
            <<"u5a31", "u4e50">>, TRUE, 2),
       Item(<<"m", "u", "s", "i", "c">>,
            <<"u70b9", "u6b4c">>,
            <<"u70b9", "u64ad", "u6307", "u5b9a", "u6b4c", "u66f2">>,
            <<"#", "u70b9", "u6b4c", " ", "[", "u6b4c", "u66f2", "]">>,
            <<"u5a31", "u4e50">>, TRUE, 3),
       Item(<<"d", "o", "m", "a", "i", "n">>,
            <<"u57df", "u540d", "u67e5", "u8be2">>,
            <<"u67e5", "u8be2", "u57df", "u540d", "u4fe1", "u606f">>,
            <<"#", "u57df", "u540d", " ", "[", "u57df", "u540d", "]">>,
            <<"u5de5", "u5177">>, TRUE, 4),
       Item(<<"s", "e", "r", "v", "e", "r">>,
            <<"u670d", "u52a1", "u5668", "u72b6", "u6001">>,
            <<"u67e5", "u8be2", "u670d", "u52a1", "u5668", "u72b6", "u6001", "u4fe1", "u606f">>,
            <<"#", "u670d", "u52a1", "u5668", " ", "(", "u5730", "u5740", ")">>,
            <<"u5de5", "u5177">>, TRUE, 5) >>

\* the i-th of a family of configured items: orders repeat and are not
\* monotone in i, the second item is disabled, categories alternate
BrowseItem(i) ==
    Item(<<"e">> \o ToBase36(i), <<"N">> \o ToBase36(i), <<"d">>, <<"#">> \o ToBase36(i),
         IF i % 3 = 0 THEN <<"T", "x">> ELSE <<"u5de5">>,
         i # 2, (i * 3) % 5)

BrowseSeeds(k) == [i \in 1..k |-> BrowseItem(i)]

Sessions ==
    { [userId |-> "", authority |-> 0],
      [userId |-> "42", authority |-> 0],
      [userId |-> "42", authority |-> AdminAuthority],
      [userId |-> "123456789", authority |-> 0] }

\* the id arguments: a configured id, a generated id and an id never stored
IdArgs == { <<"s">>, <<"a", "-", "1">>, <<"z">> }

\* the name and command arguments of menu.add; "" stands for a missing one
AddArgs == { [name |-> <<"A", "!">>, command |-> <<"#", "a">>],
             [name |-> <<>>, command |-> <<"#", "a">>],
             [name |-> <<"A", "!">>, command |-> <<>>] }

NoOpts == [name |-> Absent, description |-> Absent, command |-> Absent,
           category |-> Absent, order |-> Absent]

AddOpts == { NoOpts,
             [NoOpts EXCEPT !.order = Some(0)],
             [NoOpts EXCEPT !.description = Some(<<"e">>),
                            !.category = Some(<<"t">>), !.order = Some(7)] }

EditOpts == { NoOpts,
              [NoOpts EXCEPT !.order = Some(0)],
              [NoOpts EXCEPT !.name = Some(<<"X">>)],
              [name |-> Some(<<"X">>), description |-> Some(<<"e">>),
               command |-> Some(<<"#", "x">>), category |-> Some(<<"t">>),
               order |-> Some(7)] }

NewCategories == { <<"t">> }

----------------------------------------------------------------------------
(* The record of the command that ran last *)

Ret(kind, args) == [kind |-> kind, args |-> args]

NoLast ==
    [cmd |-> "none", userId |-> "", authority |-> 0, test |-> "uncalled",
     permission |-> "uncalled", gate |-> "none", id |-> <<>>, name |-> <<>>, command |-> <<>>,
     opts |-> NoOpts, newCategory |-> <<>>, ret |-> Ret("none", <<>>)]

\* what ctx.permissions does when checkPermission reaches it for this
\* session; "uncalled" when checkPermission would not reach it
ConsultedTest(session, test) ==
    IF HasUserId(session) /\ ~(session.authority # 0 /\ session.authority >= AdminAuthority)
    THEN test ELSE "uncalled"

\* the callers: a session and what ctx.permissions does when it is consulted
Callers ==
    { c \in [session : Sessions, test : TestOutcomes \cup {"uncalled"}] :
        c.test = ConsultedTest(c.session, c.test) }

\* a caller whose session authority passes checkPermission
MainCaller == [session |-> [userId |-> "42", authority |-> AdminAuthority],
               test |-> "uncalled"]

\* a caller whom ctx.permissions refuses
OutsideCaller == [session |-> [userId |-> "42", authority |-> 0], test |-> "false"]

\* the calls of a command: every caller with the arguments first, and the
\* two callers above with each of the arguments Args
Calls(first, Args) ==
    {[c |-> c, a |-> first] : c \in Callers}
        \cup {[c |-> c, a |-> a] : c \in {MainCaller, OutsideCaller}, a \in Args}

\* what the Promise of checkPermission settles to for this session;
\* "uncalled" for a session that the handlers turn away before calling it
PermissionOf(session, test) ==
    IF ~HasUserId(session) THEN "uncalled"
    ELSE IF CheckPermission(session, test).rejected THEN "rejected"
    ELSE IF CheckPermission(session, test).value THEN "true" ELSE "false"

Called(cmd, session, test) ==
    [NoLast EXCEPT !.cmd = cmd, !.userId = session.userId,
                   !.authority = session.authority,
                   !.test = ConsultedTest(session, test),
                   !.permission = PermissionOf(session, test)]

Denied == Ret("PermissionDenied", <<>>)
NotFound(id) == Ret("NotFound", <<id>>)

----------------------------------------------------------------------------
(* The mutating commands: each yields the store and the return value *)

Outcome(store, gate, ret) == [store |-> store, gate |-> gate, ret |-> ret]

NewItem(m, id, name, command, opts) ==
    Item(id, name,
         IF TruthyStr(opts.description) THEN Val(opts.description)
         ELSE PlaceholderDescription,
         command,
         IF TruthyStr(opts.category) THEN Val(opts.category) ELSE DefaultCategory,
         TRUE,
         IF TruthyNum(opts.order) THEN Val(opts.order) ELSE MapSize(m) + 1)

\* a menu.add that stores the entry before it looks at its arguments
MenuAddStoringFirst(m, v, session, test, name, command, opts, t) ==
    LET id == GenerateId(name, t)
        stored == MapSet(m, id, NewItem(m, id, name, command, opts))
        gate == PermissionGate(v, session, test)
    IN  IF Len(name) = 0 \/ Len(command) = 0
        THEN Outcome(stored, "none", Ret("Validation", <<>>))
        ELSE IF gate = "denied" THEN Outcome(stored, gate, Denied)
        ELSE Outcome(stored, gate, Ret("Added", <<name, id>>))

\* menu.add <name> <command>
MenuAdd(m, v, session, test, name, command, opts, t) ==
    IF Len(name) = 0 \/ Len(command) = 0
    THEN Outcome(m, "none", Ret("Validation", <<>>))
    ELSE LET gate == PermissionGate(v, session, test)
             id == GenerateId(name, t)
         IN  IF gate = "denied" THEN Outcome(m, gate, Denied)
             ELSE IF gate = "throws" THEN Outcome(m, gate, Ret("Throws", <<>>))
             ELSE Outcome(MapSet(m, id, NewItem(m, id, name, command, opts)),
                          gate, Ret("Added", <<name, id>>))

\* early returns that look the id up before they test the permission
LookupBeforeGate(m, v, session, test, id) ==
    LET gate == PermissionGate(v, session, test)
    IN  IF MapGet(m, id) = Absent THEN Outcome(m, gate, NotFound(id))
        ELSE IF gate = "denied" THEN Outcome(m, gate, Denied)
        ELSE Outcome(m, gate, Ret("Found", <<>>))

\* the early returns a handler on an id starts with: the permission test,
\* then the lookup; "Found" when neither returns
Lookup(m, v, session, test, id) ==
    LET gate == PermissionGate(v, session, test)
    IN  IF gate = "denied" THEN Outcome(m, gate, Denied)
        ELSE IF gate = "throws" THEN Outcome(m, gate, Ret("Throws", <<>>))
        ELSE IF MapGet(m, id) = Absent THEN Outcome(m, gate, NotFound(id))
        ELSE Outcome(m, gate, Ret("Found", <<>>))

\* a toggle that disables the entry whatever its flag was
MenuToggleDisabling(m, v, session, test, id) ==
    LET early == Lookup(m, v, session, test, id)
        item == Val(MapGet(m, id))
    IN  IF early.ret.kind # "Found" THEN early
        ELSE Outcome(MapSet(m, id, [item EXCEPT !.enabled = FALSE]), "pass",
                     Ret("Disabled", <<item.name>>))

\* menu.toggle <id>
MenuToggle(m, v, session, test, id) ==
    LET early == Lookup(m, v, session, test, id)
        item == Val(MapGet(m, id))
        toggled == [item EXCEPT !.enabled = ~item.enabled]
    IN  IF early.ret.kind # "Found" THEN early
        ELSE Outcome(MapSet(m, id, toggled), "pass",
                     Ret(IF toggled.enabled THEN "Enabled" ELSE "Disabled",
                         <<toggled.name>>))

\* menu.delete <id>
MenuDelete(m, v, session, test, id) ==
    LET early == Lookup(m, v, session, test, id)
        item == Val(MapGet(m, id))
    IN  IF early.ret.kind # "Found" THEN early
        ELSE Outcome(MapDelete(m, id), "pass", Ret("Deleted", <<item.name>>))

\* an edit that replaces the whole record by the options
EditedAllFields(item, opts) ==
    [item EXCEPT !.name = IF IsSome(opts.name) THEN Val(opts.name) ELSE <<>>,
                 !.description = IF IsSome(opts.description) THEN Val(opts.description) ELSE <<>>,
                 !.command = IF IsSome(opts.command) THEN Val(opts.command) ELSE <<>>,
                 !.category = IF IsSome(opts.category) THEN Val(opts.category) ELSE <<>>,
                 !.order = IF IsSome(opts.order) THEN Val(opts.order) ELSE 0]

\* the field updates of menu.edit
Edited(item, opts) ==
    [item EXCEPT !.name = IF TruthyStr(opts.name) THEN Val(opts.name) ELSE @,
                 !.description = IF TruthyStr(opts.description) THEN Val(opts.description) ELSE @,
                 !.command = IF TruthyStr(opts.command) THEN Val(opts.command) ELSE @,
                 !.category = IF TruthyStr(opts.category) THEN Val(opts.category) ELSE @,
                 !.order = IF TruthyNum(opts.order) THEN Val(opts.order) ELSE @]

\* menu.edit <id>
MenuEdit(m, v, session, test, id, opts) ==
    LET early == Lookup(m, v, session, test, id)
        item == Val(MapGet(m, id))
    IN  IF early.ret.kind # "Found" THEN early
        ELSE Outcome(MapSet(m, id, Edited(item, opts)), "pass",
                     Ret("Updated", <<Edited(item, opts).name>>))

\* menu.category.change <id> <newCategory>
MenuCategoryChange(m, v, session, test, id, newCategory) ==
    LET early == Lookup(m, v, session, test, id)
        item == Val(MapGet(m, id))
    IN  IF early.ret.kind # "Found" THEN early
        ELSE Outcome(MapSet(m, id, [item EXCEPT !.category = newCategory]), "pass",
                     Ret("Moved", <<item.name, item.category, newCategory>>))

----------------------------------------------------------------------------
(* The commands that only read: each yields the store and the return value *)

\* a listing that sorts the entries of the Map itself
MenuListSortingStore(m, category) ==
    LET sorted == SortByOrder(MapValues(m))
    IN  Outcome([i \in 1..Len(sorted) |-> [key |-> sorted[i].id, val |-> sorted[i]]],
                "none", [kind |-> "List", args |-> <<>>, items |-> sorted])

\* menu.list [category]: the sort acts on the array Array.from made
MenuList(m, category) ==
    LET all == MapValues(m)
        items == IF TruthyStr(category)
                 THEN SelectSeq(all, LAMBDA item : MatchesCategory(item, Val(category)))
                 ELSE all
    IN  IF Len(items) = 0
        THEN Outcome(m, "none",
                     Ret("NoListItems",
                         IF TruthyStr(category) THEN <<Val(category)>> ELSE <<>>))
        ELSE Outcome(m, "none",
                     [kind |-> "List",
                      args |-> IF TruthyStr(category) THEN <<Val(category)>> ELSE <<>>,
                      items |-> SortByOrder(items)])

\* a keyword test that leaves out the category
MatchesKeywordNoCategory(item, keyword) ==
    \/ Includes(ToLowerCase(item.name), ToLowerCase(keyword))
    \/ Includes(ToLowerCase(item.description), ToLowerCase(keyword))
    \/ Includes(ToLowerCase(item.command), ToLowerCase(keyword))

\* the filter of menu.search
MatchesKeyword(item, keyword) ==
    \/ Includes(ToLowerCase(item.name), ToLowerCase(keyword))
    \/ Includes(ToLowerCase(item.description), ToLowerCase(keyword))
    \/ Includes(ToLowerCase(item.command), ToLowerCase(keyword))
    \/ Includes(ToLowerCase(item.category), ToLowerCase(keyword))

\* menu.search <keyword>; "" stands for a missing keyword
MenuSearch(m, keyword) ==
    LET results == SelectSeq(MapValues(m), LAMBDA item : MatchesKeyword(item, keyword))
    IN  IF Len(keyword) = 0 THEN Outcome(m, "none", Ret("NoKeyword", <<>>))
        ELSE IF Len(results) = 0 THEN Outcome(m, "none", Ret("NoResults", <<keyword>>))
        ELSE Outcome(m, "none",
                     [kind |-> "Results", args |-> <<keyword>>, items |-> results])

\* menu.category.list
MenuCategoryList(m) ==
    LET values == MapValues(m)
        categories == Distinct([i \in 1..Len(values) |-> values[i].category])
    IN  IF Len(categories) = 0 THEN Outcome(m, "none", Ret("NoCategories", <<>>))
        ELSE Outcome(m, "none", Ret("Categories", categories))

\* menu.suggest <name> <command>: the suggestion is logged, nothing is stored
MenuSuggest(m, session, name, command, description, t) ==
    Outcome(m, "none",
            [kind |-> "Suggested", args |-> <<name>>,
             logged |-> [name |-> name, command |-> command,
                         description |-> IF TruthyStr(description) THEN Val(description)
                                         ELSE PlaceholderDescription,
                         userId |-> session.userId, timestamp |-> t]])

\* the category argument of menu.list
ListArgs == { Absent, Some(<<"t">>) }

\* the keyword argument of menu.search
SearchArgs == { <<>>, <<"S">>, <<"t">>, <<"u5de5">>, <<"q">> }

\* the -d option of menu.suggest
SuggestOpts == { Absent, Some(<<"e">>) }

----------------------------------------------------------------------------
(* The menu command (browse) *)

\* the calls generateMenuImage makes on the renderer, in order
RenderSteps == <<"page", "setViewport", "setContent", "screenshot", "close">>

\* what the renderer does for one call: "absent" (ctx.puppeteer is falsy),
\* "ok", or the step of generateMenuImage that throws
RenderOutcomes == {"absent", "ok"} \cup Range(RenderSteps)

\* the calls made when a failed step is tried a second time
RenderCallsRetrying(render) ==
    IF render = "ok" THEN RenderSteps
    ELSE IF render = "absent" THEN <<>>
    ELSE <<render, render>>

\* the calls generateMenuImage makes: ctx.puppeteer.page() stands before
\* the try; a step that throws inside the try ends it, and the finally
\* clause closes the page
RenderCalls(render) ==
    IF render = "ok" \/ render = "close" THEN RenderSteps
    ELSE IF render = "absent" THEN <<>>
    ELSE IF render = "page" THEN <<"page">>
    ELSE SubSeq(RenderSteps, 1, PosOf(RenderSteps, render)) \o <<"close">>

\* a column count that rounds the quotient up
ColumnsRoundedUp(cfg) ==
    (cfg.imageWidth + cfg.imageColumnWidth - 1) \div cfg.imageColumnWidth

\* columns: Math.floor(config.imageWidth / config.imageColumnWidth)
Columns(cfg) == cfg.imageWidth \div cfg.imageColumnWidth

\* flexBasis: calc((100 / columns)% - (12 / columns)px), the two quotients
\* kept as fractions of denominator columns
FlexBasis(columns) == [percentNum |-> 100, pxNum |-> 12, den |-> columns]

\* the width of a row of .menu-grid: the content box of .container
RowWidth(cfg) ==
    Min(ContainerMaxWidth, cfg.imageWidth - 2 * BodyPadding - 2 * ContainerPadding)

\* the footer, body and layout of the page generateMenuImage builds
MenuHtml(cfg, items, pageNum, totalPages, category, all) ==
    [columns |-> Columns(cfg),
     flexBasis |-> FlexBasis(Columns(cfg)),
     gapSize |-> GapSize,
     rowWidth |-> RowWidth(cfg),
     subtitle |-> IF TruthyStr(category) THEN category ELSE Absent,
     groups |-> Groups(items, cfg.enableCategories),
     pageIndicator |-> IF totalPages > 1
                       THEN Some([page |-> pageNum, total |-> totalPages])
                       ELSE Absent,
     fullIndicator |-> all,
     nextPageHint |-> IF ~all /\ totalPages > 1 /\ pageNum < totalPages
                      THEN Some([page |-> pageNum + 1,
                                 category |-> IF TruthyStr(category)
                                              THEN category ELSE Absent])
                      ELSE Absent]

\* generateMenuImage: the image of the page it builds, or "Throws" when
\* ctx.puppeteer is falsy or a call on the renderer throws
GenerateMenuImage(cfg, render, items, pageNum, totalPages, category, all) ==
    IF render = "ok"
    THEN [kind |-> "Image", args |-> <<>>, calls |-> RenderCalls(render),
          html |-> MenuHtml(cfg, items, pageNum, totalPages, category, all)]
    ELSE [kind |-> "Throws", args |-> <<>>, calls |-> RenderCalls(render)]

\* the text the menu command builds
MenuText(cfg, filtered, pageItems, page) ==
    [kind |-> "Text", args |-> <<>>,
     groups |-> Groups(pageItems, cfg.enableCategories),
     pageInfo |-> IF TotalPagesForText(filtered, cfg.itemsPerPage) > 1
                  THEN Some([page |-> page,
                             total |-> TotalPagesForText(filtered, cfg.itemsPerPage),
                             next |-> page + 1])
                  ELSE Absent,
     imageTip |-> TRUE]

\* the menu command; opt.page is optional and defaults to 1
MenuBrowse(m, cfg, opt, render) ==
    LET page == IF IsSome(opt.page) THEN Val(opt.page) ELSE 1
        filtered == FilteredItems(m, opt.category)
        pageItems == PageItems(filtered, page, cfg.itemsPerPage, opt.all)
        currentPage == CurrentPage(page, opt.all)
        totalPagesValue == TotalPagesValue(filtered, cfg.itemsPerPage, opt.all)
        useImage == opt.image \/ cfg.enableImageMenu
    IN  IF Len(pageItems) = 0
        THEN Ret("NoItems", IF TruthyStr(opt.category) THEN <<Val(opt.category)>> ELSE <<>>)
        ELSE IF useImage
        THEN IF render = "absent" THEN Ret("ImageUnavailable", <<>>)
             ELSE LET img == GenerateMenuImage(cfg, render, pageItems, currentPage,
                                               totalPagesValue, opt.category, opt.all)
                  IN  IF img.kind = "Throws"
                      THEN [kind |-> "RenderFailed", args |-> <<>>, calls |-> img.calls]
                      ELSE img
        ELSE MenuText(cfg, filtered, pageItems, page)

\* the renderer's outcome the call consulted, if it consulted it
ConsultedRender(m, cfg, opt, render) ==
    LET page == IF IsSome(opt.page) THEN Val(opt.page) ELSE 1
        filtered == FilteredItems(m, opt.category)
    IN  IF Len(PageItems(filtered, page, cfg.itemsPerPage, opt.all)) > 0
           /\ (opt.image \/ cfg.enableImageMenu)
        THEN render ELSE "unused"

\* the -c option: none, 't', and the category of two default items
CategoryArgs == { Absent, Some(<<"t">>), Some(<<"u5a31", "u4e50">>) }

\* the options of the menu command, in full
MenuOpts ==
    [page : {Absent} \cup {Some(p) : p \in (0 - 2)..MaxPage},
     category : CategoryArgs, image : BOOLEAN, all : BOOLEAN]

\* the options of the menu command run between mutations
MenuOptsPlain ==
    [page : {Absent, Some(2)}, category : {Absent, Some(<<"t">>)},
     image : {FALSE}, all : BOOLEAN]

----------------------------------------------------------------------------
(* Configurations *)

PlainConfig ==
    [itemsPerPage |-> MinItemsPerPage, enableCategories |-> TRUE,
     enableImageMenu |-> FALSE, allowUserSuggestions |-> TRUE,
     imageWidth |-> DefaultImageWidth, imageColumnWidth |-> DefaultImageColumnWidth]

BrowseConfigs ==
    [itemsPerPage : MinItemsPerPage..MaxItemsPerPage, enableCategories : BOOLEAN,
     enableImageMenu : {FALSE}, allowUserSuggestions : {TRUE},
     imageWidth : {DefaultImageWidth}, imageColumnWidth : {DefaultImageColumnWidth}]

\* a configuration with an image width and a column width
LayoutConfig(w, c) == [PlainConfig EXCEPT !.imageWidth = w, !.imageColumnWidth = c]

----------------------------------------------------------------------------
(* Actions *)

\* no command is running and no reply is on its way
Idle == last = NoLast

Finish(rec, o) ==
    /\ menuItems' = o.store
    /\ last' = [rec EXCEPT !.gate = o.gate, !.ret = o.ret]
    /\ UNCHANGED <<variant, config, now, disposed, pending>>

AddCalls ==
    Calls([name |-> <<"A", "!">>, command |-> <<"#", "a">>, opts |-> NoOpts],
          {[name |-> a.name, command |-> a.command, opts |-> o] :
              a \in AddArgs, o \in AddOpts})

Add ==
    /\ Idle /\ ~disposed
    /\ \E x \in AddCalls :
         Finish([Called("add", x.c.session, x.c.test)
                    EXCEPT !.name = x.a.name, !.command = x.a.command,
                           !.opts = x.a.opts],
                MenuAdd(menuItems, variant, x.c.session, x.c.test,
                        x.a.name, x.a.command, x.a.opts, now))

Toggle ==
    /\ Idle /\ ~disposed
    /\ \E x \in Calls(<<"s">>, IdArgs) :
         Finish([Called("toggle", x.c.session, x.c.test) EXCEPT !.id = x.a],
                MenuToggle(menuItems, variant, x.c.session, x.c.test, x.a))

Delete ==
    /\ Idle /\ ~disposed
    /\ \E x \in Calls(<<"s">>, IdArgs) :
         Finish([Called("delete", x.c.session, x.c.test) EXCEPT !.id = x.a],
                MenuDelete(menuItems, variant, x.c.session, x.c.test, x.a))

EditCalls ==
    Calls([id |-> <<"s">>, opts |-> [NoOpts EXCEPT !.name = Some(<<"X">>)]],
          [id : IdArgs, opts : EditOpts])

Edit ==
    /\ Idle /\ ~disposed
    /\ \E x \in EditCalls :
         Finish([Called("edit", x.c.session, x.c.test)
                    EXCEPT !.id = x.a.id, !.opts = x.a.opts],
                MenuEdit(menuItems, variant, x.c.session, x.c.test, x.a.id, x.a.opts))

CategoryChange ==
    /\ Idle /\ ~disposed
    /\ \E x \in Calls(<<"s">>, IdArgs), newCategory \in NewCategories :
         Finish([Called("category.change", x.c.session, x.c.test)
                    EXCEPT !.id = x.a, !.newCategory = newCategory],
                MenuCategoryChange(menuItems, variant, x.c.session, x.c.test,
                                   x.a, newCategory))

MenuWith(Opts, Renders) ==
    /\ Idle /\ ~disposed
    /\ \E opt \in Opts :
       \E render \in (IF opt.image \/ config.enableImageMenu THEN Renders ELSE {"absent"}) :
         /\ last' = [cmd |-> "menu", opt |-> opt,
                     render |-> ConsultedRender(menuItems, config, opt, render),
                     ret |-> MenuBrowse(menuItems, config, opt, render)]
         /\ UNCHANGED <<variant, config, menuItems, now, disposed, pending>>

\* a command that only reads has returned
Answer(rec, o) ==
    /\ menuItems' = o.store
    /\ last' = [rec EXCEPT !.ret = o.ret]
    /\ UNCHANGED <<variant, config, now, disposed, pending>>

List ==
    /\ Idle /\ ~disposed
    /\ \E category \in ListArgs :
         Answer([cmd |-> "list", category |-> category, ret |-> Ret("none", <<>>)],
                MenuList(menuItems, category))

Search ==
    /\ Idle /\ ~disposed
    /\ \E keyword \in SearchArgs :
         Answer([cmd |-> "search", keyword |-> keyword, ret |-> Ret("none", <<>>)],
                MenuSearch(menuItems, keyword))

CategoryList ==
    /\ Idle /\ ~disposed
    /\ Answer([cmd |-> "category.list", ret |-> Ret("none", <<>>)],
              MenuCategoryList(menuItems))

Suggest ==
    /\ Idle /\ ~disposed
    /\ config.allowUserSuggestions
    /\ \E session \in Sessions, description \in SuggestOpts :
         Answer([cmd |-> "suggest", userId |-> session.userId,
                 description |-> description, ret |-> Ret("none", <<>>)],
                MenuSuggest(menuItems, session, <<"A", "!">>, <<"#", "a">>,
                            description, now))

Menu == MenuWith(MenuOptsPlain, {"absent"})

MenuAny == MenuWith(MenuOpts, RenderOutcomes)

\* menu -i with a renderer that works
MenuImage ==
    MenuWith({[page |-> Absent, category |-> Absent, image |-> TRUE, all |-> FALSE]},
             {"ok"})

\* time passes between two commands
Tick ==
    /\ Idle
    /\ now < MaxClock
    /\ now' = now + 1
    /\ UNCHANGED <<variant, config, menuItems, disposed, last, pending>>

\* ctx.on('dispose', ...)
Dispose ==
    /\ Idle /\ ~disposed
    /\ menuItems' = MapClear(menuItems)
    /\ disposed' = TRUE
    /\ last' = [NoLast EXCEPT !.cmd = "dispose"]
    /\ UNCHANGED <<variant, config, now, pending>>

\* the value a handler returned is sent to the caller; the next command
\* is taken up after that
Reply ==
    /\ ~Idle
    /\ last' = NoLast
    /\ UNCHANGED <<variant, config, menuItems, now, disposed, pending>>

----------------------------------------------------------------------------
(* Handlers that overlap: a handler gives up control at an await, and any
   other handler may be called or resumed before it goes on *)

\* the most handlers suspended at one time
MaxInFlight == 2

\* a handler suspended at an await: the call it serves and the Map as it
\* was when the handler was called
Suspended(call, m) == [call |-> call, seen |-> m]

\* s without its i-th element
RemoveAt(s, i) == SubSeq(s, 1, i - 1) \o SubSeq(s, i + 1, Len(s))

\* a resumed handler that works on the Map as it was at its call
StoreAtCall(h, m) == h.seen

\* the Map a handler works on once `await checkPermission(...)` has
\* settled: menuItems.get(id) runs then, on the Map as it is then
StoreRead(h, m) == m

\* a handler from its await on. The mutating handlers test the permission,
\* look the entry up, modify it and write it back with no await in
\* between; menu has built its page before the awaits on the renderer
AfterAwait(h, m, v) ==
    LET c == h.call
        session == [userId |-> c.userId, authority |-> c.authority]
        store == StoreRead(h, m)
    IN  CASE c.cmd = "toggle" -> MenuToggle(store, v, session, c.test, c.id)
          [] c.cmd = "delete" -> MenuDelete(store, v, session, c.test, c.id)
          [] c.cmd = "edit"   -> MenuEdit(store, v, session, c.test, c.id, c.opts)
          [] c.cmd = "category.change" ->
                MenuCategoryChange(store, v, session, c.test, c.id, c.newCategory)
          [] c.cmd = "menu"   -> Outcome(m, "none", c.ret)

\* the calls that overlap
OverlappingCalls ==
    { [Called("toggle", c.session, c.test) EXCEPT !.id = <<"s">>] :
         c \in {MainCaller, OutsideCaller,
                [session |-> [userId |-> "", authority |-> 0], test |-> "uncalled"]} }
      \cup { [Called("toggle", MainCaller.session, MainCaller.test) EXCEPT !.id = <<"z">>],
             [Called("delete", MainCaller.session, MainCaller.test) EXCEPT !.id = <<"s">>],
             [Called("edit", MainCaller.session, MainCaller.test)
                 EXCEPT !.id = <<"s">>, !.opts = [NoOpts EXCEPT !.name = Some(<<"X">>)]],
             [Called("category.change", MainCaller.session, MainCaller.test)
                 EXCEPT !.id = <<"s">>, !.newCategory = <<"t">>] }

\* a handler is called and runs up to its await
Suspend(call) ==
    /\ Len(pending) < MaxInFlight
    /\ pending' = Append(pending, Suspended(call, menuItems))
    /\ UNCHANGED <<variant, config, menuItems, now, disposed, last>>

\* a mutating command is called: without a userId, or where the Promise is
\* not awaited, the handler returns at once
CallMutating ==
    /\ Idle /\ ~disposed
    /\ \E call \in OverlappingCalls :
         IF call.userId # "" /\ Awaits(variant)
         THEN Suspend(call)
         ELSE Finish(call, AfterAwait(Suspended(call, menuItems), menuItems, variant))

\* menu -i is called: the page is built from the Map, then the handler
\* awaits the renderer
CallMenu ==
    /\ Idle /\ ~disposed
    /\ \E render \in {"ok", "screenshot"} :
         LET opt == [page |-> Absent, category |-> Absent, image |-> TRUE, all |-> FALSE]
             call == [cmd |-> "menu", opt |-> opt,
                      render |-> ConsultedRender(menuItems, config, opt, render),
                      ret |-> MenuBrowse(menuItems, config, opt, render)]
         IN  IF call.render = "unused"
             THEN /\ last' = call
                  /\ UNCHANGED <<variant, config, menuItems, now, disposed, pending>>
             ELSE Suspend(call)

\* the await of a suspended handler settles and the handler runs to its
\* return
Resume ==
    /\ Idle /\ ~disposed
    /\ \E i \in 1..Len(pending) :
         LET h == pending[i]
             o == AfterAwait(h, menuItems, variant)
         IN  /\ menuItems' = o.store
             /\ last' = [cmd |-> "resumed", call |-> [h.call EXCEPT !.ret = o.ret],
                         gate |-> o.gate, seen |-> h.seen]
             /\ pending' = RemoveAt(pending, i)
    /\ UNCHANGED <<variant, config, now, disposed>>

----------------------------------------------------------------------------
(* Specifications *)

InitWith(v, cfg, items) ==
    /\ variant = v
    /\ config = cfg
    /\ menuItems = Seed(items)
    /\ now = 1
    /\ disposed = FALSE
    /\ last = NoLast
    /\ pending = <<>>

\* src/src/index.ts
Init == \E items \in SeedConfigs : InitWith("index", PlainConfig, items)

Next ==
    \/ Add \/ Toggle \/ Delete \/ Edit \/ CategoryChange
    \/ Menu \/ List \/ Search \/ CategoryList \/ Suggest
    \/ Reply \/ Tick \/ Dispose

Spec == Init /\ [][Next]_vars

\* the mutating commands of src/unnamed/part_000 and src/unnamed/part_001
InitVariant ==
    \E v \in {"part_000", "part_001"}, items \in SeedConfigs :
        InitWith(v, PlainConfig, items)

NextVariant ==
    Add \/ Toggle \/ Delete \/ Edit \/ CategoryChange \/ Reply \/ Tick \/ Dispose

SpecVariant == InitVariant /\ [][NextVariant]_vars

\* the menu command of src/src/index.ts over configured catalogues
InitBrowse ==
    \E cfg \in BrowseConfigs,
       items \in {BrowseSeeds(k) : k \in 0..MaxSeedItems} \cup {DefaultItems} :
        InitWith("index", cfg, items)

NextBrowse == MenuAny \/ List \/ Search \/ CategoryList \/ Suggest \/ Reply

SpecBrowse == InitBrowse /\ [][NextBrowse]_vars

\* the menu image of src/src/index.ts over the configured widths
\* with every image width and column width the schema admits
InitLayout ==
    \E w \in MinImageWidth..MaxImageWidth,
       c \in MinImageColumnWidth..MaxImageColumnWidth :
        InitWith("index", LayoutConfig(w, c), <<SeedS>>)

NextLayout == MenuImage \/ Reply

SpecLayout == InitLayout /\ [][NextLayout]_vars

\* src/src/index.ts, with handlers that overlap
InitConcurrent == \E items \in SeedConfigs : InitWith("index", PlainConfig, items)

NextConcurrent == CallMutating \/ CallMenu \/ Resume \/ Reply

SpecConcurrent == InitConcurrent /\ [][NextConcurrent]_vars

----------------------------------------------------------------------------
(* Properties *)

MutatingCmds == {"add", "edit", "delete", "toggle", "category.change"}

KeySet(m) == Range(MapKeys(m))

\* the caller of the last command had no userId, or checkPermission
\* settled to false for it
Unauthorized(l) == l.userId = "" \/ l.permission = "false"

\* the caller of the last command had a userId and checkPermission
\* settled to true for it
Authorized(l) == l.userId # "" /\ l.permission = "true"

\* menu.add was given an empty or missing name or command
InvalidAdd(l) == l.cmd = "add" /\ (Len(l.name) = 0 \/ Len(l.command) = 0)

UniqueKeys(m) ==
    /\ \A i, j \in 1..Len(m) : m[i].key = m[j].key => i = j
    /\ \A i \in 1..Len(m) : m[i].val.id = m[i].key

\* an entry present before and after the step keeps its id
IdsKept(m, n) ==
    \A k \in KeySet(m) \cap KeySet(n) : Val(MapGet(n, k)).id = Val(MapGet(m, k)).id

\* C1 (as stated): the store holds at most one entry per id, every entry's
\* id equals its key, and no command other than delete and dispose changes
\* which ids are present or alters an existing entry's id.
C1_AsStated ==
    [][ /\ UniqueKeys(menuItems')
        /\ IdsKept(menuItems, menuItems')
        /\ last'.cmd \notin {"delete", "dispose"}
              => KeySet(menuItems') = KeySet(menuItems) ]_vars

\* C1 (amended): the store holds at most one entry per id, every entry's id
\* equals its key, no command alters an existing entry's id, and the ids
\* present change only by menu.add adding its generated id, by menu.delete
\* removing its argument and by dispose removing all.
C1_UniqueIds ==
    /\ [] UniqueKeys(menuItems)
    /\ [][ /\ last'.cmd = "dispose" => KeySet(menuItems') = {}
           /\ menuItems' # menuItems =>
                 /\ IdsKept(menuItems, menuItems')
                 /\ last'.cmd \notin {"add", "delete", "dispose"}
                       => KeySet(menuItems') = KeySet(menuItems)
                 /\ last'.cmd = "add"
                       => KeySet(menuItems') \in
                             { KeySet(menuItems),
                               KeySet(menuItems) \cup {GenerateId(last'.name, now)} }
                 /\ last'.cmd = "delete"
                       => KeySet(menuItems') = KeySet(menuItems) \ {last'.id} ]_vars

\* an edit succeeded on a store that holds a configured and an added entry
C1_Witness ==
    /\ last.cmd = "edit" /\ last.ret.kind = "Updated"
    /\ Len(menuItems) >= 3
    /\ \E i \in 1..Len(menuItems) : menuItems[i].key = GenerateId(<<"A", "!">>, 1)

\* C2 (as stated): in index.ts, a mutating command whose caller has no
\* userId or for whom checkPermission resolves to false returns the
\* permission-denied message and leaves the store as it was.
C2_AsStated ==
    [][ (last'.cmd \in MutatingCmds /\ Unauthorized(last'))
            => (last'.ret = Denied /\ menuItems' = menuItems) ]_vars

\* C2 (amended): as stated, except that menu.add with an empty or missing
\* name or command returns the validation message before the permission
\* test; the store is as it was in every case.
C2_DeniedUntouched ==
    [][ (last'.cmd \in MutatingCmds /\ Unauthorized(last'))
            => /\ menuItems' = menuItems
               /\ IF InvalidAdd(last') THEN last'.ret.kind = "Validation"
                  ELSE last'.ret = Denied ]_vars

\* an unauthorized delete of an existing id: the entry is still there
C2_Witness ==
    /\ last.cmd = "delete" /\ Unauthorized(last) /\ last.permission = "false"
    /\ last.ret = Denied
    /\ MapHas(menuItems, last.id)

\* C3: in part_000 and part_001, a caller with a userId for whom
\* checkPermission resolves to false is denied by every mutating command
\* (menu.add being given a name and a command) and the store is unchanged.
C3_VariantDenies ==
    (/\ last.cmd \in MutatingCmds
     /\ last.userId # "" /\ last.permission = "false"
     /\ ~InvalidAdd(last))
        => last.ret = Denied

\* C4: when ctx.permissions.test throws for a caller whose authority is
\* absent or below 3, checkPermission resolves to false, whatever the
\* userId, and the mutating command is not let through.
C4_ThrowNeverAuthorizes ==
    (last.cmd \in MutatingCmds /\ last.test = "throws")
        => (last.permission = "false" /\ last.gate # "pass")

\* C5: an authorized delete, toggle, edit or category.change of an id that
\* is not in the store returns the 'no such id' message for that id and
\* leaves the store unchanged.
C5_NotFoundUntouched ==
    [][ (/\ last'.cmd \in {"delete", "toggle", "edit", "category.change"}
         /\ Authorized(last')
         /\ ~MapHas(menuItems, last'.id))
            => (last'.ret = NotFound(last'.id) /\ menuItems' = menuItems) ]_vars

\* an authorized edit of an absent id, on a store that holds entries
C5_Witness ==
    /\ last.cmd = "edit" /\ Authorized(last) /\ IsSome(last.opts.name)
    /\ last.ret = NotFound(last.id)
    /\ ~MapHas(menuItems, last.id) /\ Len(menuItems) >= 2

\* C6: an authorized menu.add whose generated id is already in the store
\* fails with a duplicate-id outcome and leaves the store untouched;
\* otherwise it inserts the new entry and the size grows by exactly one.
C6_AddGuardsDuplicate ==
    [][ (last'.cmd = "add" /\ Authorized(last') /\ ~InvalidAdd(last'))
            => IF MapHas(menuItems, GenerateId(last'.name, now))
               THEN last'.ret.kind = "DuplicateId" /\ menuItems' = menuItems
               ELSE /\ MapSize(menuItems') = MapSize(menuItems) + 1
                    /\ MapHas(menuItems', GenerateId(last'.name, now)) ]_vars

EditFields == {"name", "description", "command", "category", "order"}

\* C7: after an authorized menu.edit of an existing id, id, enabled and
\* every field not supplied keep their values, every other entry and the
\* traversal order are unchanged, and an edit that supplies only a name X
\* yields the old entry with name X.
C7_EditFrame ==
    [][ (last'.cmd = "edit" /\ Authorized(last') /\ MapHas(menuItems, last'.id))
            => LET id == last'.id
                   old == Val(MapGet(menuItems, id))
                   new == Val(MapGet(menuItems', id))
               IN  /\ MapKeys(menuItems') = MapKeys(menuItems)
                   /\ \A i \in 1..Len(menuItems) :
                         menuItems[i].key # id => menuItems'[i] = menuItems[i]
                   /\ new.id = old.id /\ new.enabled = old.enabled
                   /\ \A f \in EditFields :
                         ~IsSome(last'.opts[f]) => new[f] = old[f]
                   /\ (\A f \in EditFields \ {"name"} : ~IsSome(last'.opts[f]))
                         /\ TruthyStr(last'.opts.name)
                         => new = [old EXCEPT !.name = Val(last'.opts.name)] ]_vars

\* an edit that supplied only a name succeeded beside another entry
C7_Witness ==
    /\ last.cmd = "edit" /\ last.ret.kind = "Updated"
    /\ IsSome(last.opts.name) /\ ~IsSome(last.opts.order)
    /\ Len(menuItems) >= 2
    /\ Val(MapGet(menuItems, last.id)).name = Val(last.opts.name)
    /\ Val(MapGet(menuItems, last.id)).order # 7

\* the least t with t * d >= n: the ceiling of n / d
Ceiling(n, d) == CHOOSE t \in 0..n : t * d >= n /\ (t - 1) * d < n

RECURSIVE ConcatPages(_, _, _, _)
\* the windows of pages p..total, one after the other
ConcatPages(filtered, p, total, perPage) ==
    IF p > total THEN <<>>
    ELSE PageWindow(filtered, p, perPage) \o ConcatPages(filtered, p + 1, total, perPage)

RECURSIVE Flatten(_)
\* the items of the groups of a response, in the order shown
Flatten(groups) ==
    IF groups = <<>> THEN <<>>
    ELSE Head(groups).items \o Flatten(Tail(groups))

\* the items a menu response shows
Shown(ret) ==
    IF ret.kind = "Text" THEN Flatten(ret.groups)
    ELSE IF ret.kind = "Image" THEN Flatten(ret.html.groups)
    ELSE <<>>

\* the 'page P of T' indicator of a menu response, if it has one
PageIndicator(ret) ==
    IF ret.kind = "Text" /\ IsSome(ret.pageInfo)
    THEN Some([page |-> Val(ret.pageInfo).page, total |-> Val(ret.pageInfo).total])
    ELSE IF ret.kind = "Image" THEN ret.html.pageIndicator
    ELSE Absent

SameItems(a, b) ==
    /\ Len(a) = Len(b)
    /\ Range(a) = Range(b)

\* the filtered and sorted items of the last menu command
LastFiltered == FilteredItems(menuItems, last.opt.category)

\* C8: for every filtered count N >= 1 and configured page size S, paginated
\* browse has totalPages = ceil(N / S), reports that total when it shows a
\* page indicator, shows the window of the requested page, and the windows
\* of pages 1..totalPages, concatenated, are the filtered and sorted
\* sequence, each entry once.
C8_Pagination ==
    /\ \A cat \in CategoryArgs :
          LET f == FilteredItems(menuItems, cat)
              S == config.itemsPerPage
              T == TotalPagesValue(f, S, FALSE)
          IN  Len(f) >= 1 =>
                 /\ T = Ceiling(Len(f), S)
                 /\ ConcatPages(f, 1, T, S) = f
                 /\ \A i, j \in 1..Len(f) : f[i].id = f[j].id => i = j
    /\ (last.cmd = "menu" /\ ~last.opt.all /\ last.ret.kind \in {"Text", "Image"})
          => LET S == config.itemsPerPage
                 T == Ceiling(Len(LastFiltered), S)
                 page == IF IsSome(last.opt.page) THEN Val(last.opt.page) ELSE 1
             IN  /\ PageIndicator(last.ret) =
                        IF T > 1 THEN Some([page |-> page, total |-> T]) ELSE Absent
                 /\ page \in 1..T =>
                        SameItems(Shown(last.ret),
                                  SubSeq(LastFiltered, (page - 1) * S + 1,
                                         Min(page * S, Len(LastFiltered))))

\* the third of three pages was shown
C8_Witness ==
    /\ last.cmd = "menu" /\ ~last.opt.all /\ last.ret.kind = "Text"
    /\ last.opt.page = Some(3)
    /\ PageIndicator(last.ret) = Some([page |-> 3, total |-> 3])
    /\ Len(Shown(last.ret)) = 1

\* C9: for every integer page outside 1..totalPages, paginated browse
\* selects an empty window and returns the 'no menu items found' text.
C9_OutOfRangeEmpty ==
    (/\ last.cmd = "menu" /\ ~last.opt.all /\ IsSome(last.opt.page)
     /\ Val(last.opt.page) \notin 1..Ceiling(Len(LastFiltered), config.itemsPerPage))
        => last.ret.kind = "NoItems"

\* C10: in show-all mode browse returns every enabled entry that passes
\* the category filter, sorted, whatever the page option and page size, and
\* neither the image footer nor the text shows a page indicator with T > 1.
C10_ShowAllSinglePage ==
    (last.cmd = "menu" /\ last.opt.all /\ last.ret.kind \in {"Text", "Image"})
        => /\ SameItems(Shown(last.ret), LastFiltered)
           /\ ~config.enableCategories => Shown(last.ret) = LastFiltered
           /\ \/ PageIndicator(last.ret) = Absent
              \/ Val(PageIndicator(last.ret)).total <= 1

\* s contains t, letter case ignored
ContainsIgnoringCase(s, t) ==
    \E i \in 1..(Len(s) + 1) :
        /\ i + Len(t) - 1 <= Len(s)
        /\ \A j \in 1..Len(t) : LowerChar(s[i + j - 1]) = LowerChar(t[j])

\* the stored entries that are enabled and whose category contains the
\* category option, if one is given
Selected(m, category) ==
    { item \in Range(MapValues(m)) :
        /\ item.enabled
        /\ TruthyStr(category) => ContainsIgnoringCase(item.category, Val(category)) }

Ids(items) == [i \in 1..Len(items) |-> items[i].id]

\* C11: the entries the menu command draws its pages from are exactly the
\* enabled stored entries whose category contains the category option,
\* letter case ignored (all enabled entries without the option); only
\* these are shown, show-all shows all of them, and with the five default
\* items the category u5a31 u4e50 gives hitokoto, then music.
C11_BrowseFilter ==
    last.cmd = "menu" =>
        LET expect == Selected(menuItems, last.opt.category)
        IN  /\ Range(LastFiltered) = expect
            /\ Len(LastFiltered) = Cardinality(expect)
            /\ Range(Shown(last.ret)) \subseteq expect
            /\ last.opt.all =>
                  IF expect = {} THEN last.ret.kind = "NoItems"
                  ELSE last.ret.kind \in {"Text", "Image"}
                          => Range(Shown(last.ret)) = expect
            /\ (MapValues(menuItems) = DefaultItems
                   /\ last.opt.category = Some(<<"u5a31", "u4e50">>))
                  => /\ Ids(LastFiltered) = << <<"h", "i", "t", "o", "k", "o", "t", "o">>,
                                               <<"m", "u", "s", "i", "c">> >>
                     /\ (last.ret.kind = "Text" /\ last.opt.page \in {Absent, Some(1)})
                           => Ids(Shown(last.ret)) = Ids(LastFiltered)

\* the default items were browsed by the category of hitokoto and music
C11_Witness ==
    /\ last.cmd = "menu" /\ last.ret.kind = "Text"
    /\ MapValues(menuItems) = DefaultItems
    /\ last.opt.category = Some(<<"u5a31", "u4e50">>)
    /\ Len(Shown(last.ret)) = 2

\* items ascend by order, and those of equal order are in the order in
\* which the store m holds them
AscendingStable(items, m) ==
    \A i, j \in 1..Len(items) :
        i < j => \/ items[i].order < items[j].order
                 \/ /\ items[i].order = items[j].order
                    /\ MapIndex(m, items[i].id) < MapIndex(m, items[j].id)

\* the stored entries menu.list lists for a category argument
Listed(m, category) ==
    { item \in Range(MapValues(m)) :
        TruthyStr(category) => ContainsIgnoringCase(item.category, Val(category)) }

\* the groups a menu response shows
ShownGroups(ret) ==
    IF ret.kind = "Text" THEN ret.groups
    ELSE IF ret.kind = "Image" THEN ret.html.groups
    ELSE <<>>

\* C12 (as stated): the menu command and menu.list output entries in
\* ascending order of the order field, entries of equal order in the order
\* of their insertion into the store.
C12_AsStated ==
    /\ last.cmd = "menu" => AscendingStable(Shown(last.ret), menuItems)
    /\ (last.cmd = "list" /\ last.ret.kind = "List")
          => AscendingStable(last.ret.items, menuItems)

\* C12 (amended): menu.list outputs its entries in ascending order of the
\* order field, equal orders in insertion order; the sequence the menu
\* command paginates is ordered so, and so are the entries of each group
\* it shows and, without category grouping, its whole output; a(2), b(1),
\* c(2) sort to b, a, c.
C12_SortedStable ==
    /\ last.cmd = "menu" =>
          /\ AscendingStable(LastFiltered, menuItems)
          /\ \A g \in 1..Len(ShownGroups(last.ret)) :
                AscendingStable(ShownGroups(last.ret)[g].items, menuItems)
          /\ ~config.enableCategories => AscendingStable(Shown(last.ret), menuItems)
    /\ (last.cmd = "list" /\ last.ret.kind = "List")
          => /\ AscendingStable(last.ret.items, menuItems)
             /\ Range(last.ret.items) = Listed(menuItems, last.category)
             /\ Len(last.ret.items) = Cardinality(Listed(menuItems, last.category))
    /\ LET a == Item(<<"a">>, <<"a">>, <<>>, <<>>, <<>>, TRUE, 2)
           b == Item(<<"b">>, <<"b">>, <<>>, <<>>, <<>>, TRUE, 1)
           c == Item(<<"c">>, <<"c">>, <<>>, <<>>, <<>>, TRUE, 2)
       IN  SortByOrder(<<a, b, c>>) = <<b, a, c>>

\* a listing with two neighbours of equal order
C12_Witness ==
    /\ last.cmd = "list" /\ last.ret.kind = "List"
    /\ \E i \in 1..(Len(last.ret.items) - 1) :
          last.ret.items[i].order = last.ret.items[i + 1].order

\* the layout of the image the last menu command rendered
LastLayout == last.ret.html

\* C13: for every imageWidth in 800..2000 and imageColumnWidth in 200..600
\* the column count of a rendered image is floor(imageWidth /
\* imageColumnWidth) and at least 1; 1600/400 gives 4 and 900/400 gives 2.
C13_Columns ==
    /\ config.imageWidth \in MinImageWidth..MaxImageWidth
    /\ config.imageColumnWidth \in MinImageColumnWidth..MaxImageColumnWidth
    /\ (last.cmd = "menu" /\ last.ret.kind = "Image") =>
          LET c == LastLayout.columns
              w == config.imageWidth
              cw == config.imageColumnWidth
          IN  /\ c >= 1
              /\ c * cw <= w /\ w < (c + 1) * cw
              /\ LastLayout.flexBasis.den = c
              /\ (w = 1600 /\ cw = 400) => c = 4
              /\ (w = 900 /\ cw = 400) => c = 2

\* an image of width 900 with columns of 400 was rendered
C13_Witness ==
    /\ last.cmd = "menu" /\ last.ret.kind = "Image"
    /\ config.imageWidth = 900 /\ config.imageColumnWidth = 400
    /\ LastLayout.columns = 2

\* n boxes of the basis in a row of the given width, in units of
\* 1 / (100 * basis.den) px
BoxesWidth(basis, n, rowWidth) == n * (basis.percentNum * rowWidth - 100 * basis.pxNum)

\* C14: for every column count, columns boxes of the emitted basis plus
\* columns - 1 gaps of 12px are exactly one row width.
C14_BasisFillsRow ==
    (last.cmd = "menu" /\ last.ret.kind = "Image") =>
        LET c == LastLayout.columns
            unit == 100 * LastLayout.flexBasis.den
        IN  BoxesWidth(LastLayout.flexBasis, c, LastLayout.rowWidth)
                + (c - 1) * LastLayout.gapSize * unit
              = LastLayout.rowWidth * unit

\* the items of the page the last menu command output
LastPage ==
    PageItems(LastFiltered, IF IsSome(last.opt.page) THEN Val(last.opt.page) ELSE 1,
              config.itemsPerPage, last.opt.all)

\* the position of x in a sequence that holds it once
PosIn(seq, x) == CHOOSE i \in 1..Len(seq) : seq[i] = x

\* the first position in seq of an item of the category
FirstOf(seq, category) ==
    CHOOSE i \in 1..Len(seq) :
        /\ seq[i].category = category
        /\ \A j \in 1..(i - 1) : seq[j].category # category

\* C15: with category grouping, the groups of a page partition its
\* entries: every page entry is in exactly one group, the one labelled
\* with its category; groups follow the first occurrence of their category
\* in the page, none is empty, and entries keep their page order inside a
\* group; without grouping the page is one group in page order.
C15_GroupsPartition ==
    (last.cmd = "menu" /\ last.ret.kind \in {"Text", "Image"}) =>
        LET groups == ShownGroups(last.ret)
        IN  IF config.enableCategories
            THEN /\ \A g \in 1..Len(groups) :
                       /\ groups[g].labelled
                       /\ Len(groups[g].items) >= 1
                       /\ \A i \in 1..Len(groups[g].items) :
                             /\ groups[g].items[i].category = groups[g].category
                             /\ groups[g].items[i] \in Range(LastPage)
                       /\ \A i, j \in 1..Len(groups[g].items) :
                             i < j => PosIn(LastPage, groups[g].items[i])
                                         < PosIn(LastPage, groups[g].items[j])
                 /\ \A g, h \in 1..Len(groups) :
                       g < h => /\ groups[g].category # groups[h].category
                                /\ FirstOf(LastPage, groups[g].category)
                                      < FirstOf(LastPage, groups[h].category)
                 /\ \A i \in 1..Len(LastPage) :
                       Cardinality({ g \in 1..Len(groups) :
                                       LastPage[i] \in Range(groups[g].items) }) = 1
                 /\ Len(Flatten(groups)) = Len(LastPage)
            ELSE groups = << [labelled |-> FALSE, category |-> <<>>, items |-> LastPage] >>

\* a page whose categories interleave was output in two groups
C15_Witness ==
    /\ last.cmd = "menu" /\ last.ret.kind = "Text" /\ config.enableCategories
    /\ Len(ShownGroups(last.ret)) = 2
    /\ Shown(last.ret) # LastPage

\* the next-page hint of a menu response: the page it names and, for an
\* image, the category it repeats
NextPageHint(ret) ==
    IF ret.kind = "Text" /\ IsSome(ret.pageInfo)
    THEN Some([page |-> Val(ret.pageInfo).next])
    ELSE IF ret.kind = "Image" /\ IsSome(ret.html.nextPageHint)
    THEN Some([page |-> Val(ret.html.nextPageHint).page,
               category |-> Val(ret.html.nextPageHint).category])
    ELSE Absent

\* C16: a menu response, image or text, has a next-page hint if and only
\* if the request is not show-all and page < totalPages; the image hint
\* names page + 1 and repeats the category filter when there is one.
C16_NextPageHint ==
    (last.cmd = "menu" /\ last.ret.kind \in {"Text", "Image"}) =>
        LET page == IF IsSome(last.opt.page) THEN Val(last.opt.page) ELSE 1
            T == Ceiling(Len(LastFiltered), config.itemsPerPage)
            hint == NextPageHint(last.ret)
        IN  /\ IsSome(hint) <=> (~last.opt.all /\ page < T)
            /\ (last.ret.kind = "Image" /\ IsSome(hint)) =>
                  /\ Val(hint).page = page + 1
                  /\ Val(hint).category =
                        IF TruthyStr(last.opt.category) THEN last.opt.category ELSE Absent

\* the stored entries one of whose name, description, command and
\* category contains the keyword, letter case ignored
Matching(m, keyword) ==
    { item \in Range(MapValues(m)) :
        \/ ContainsIgnoringCase(item.name, keyword)
        \/ ContainsIgnoringCase(item.description, keyword)
        \/ ContainsIgnoringCase(item.command, keyword)
        \/ ContainsIgnoringCase(item.category, keyword) }

\* C17: menu.search with a non-empty keyword returns, in one response and
\* in store traversal order, exactly the stored entries, enabled or not, of
\* which the keyword is a case-insensitive substring of the name, the
\* description, the command or the category.
C17_SearchExact ==
    (last.cmd = "search" /\ Len(last.keyword) > 0) =>
        LET expect == Matching(menuItems, last.keyword)
        IN  IF expect = {} THEN last.ret = Ret("NoResults", <<last.keyword>>)
            ELSE /\ last.ret.kind = "Results"
                 /\ Range(last.ret.items) = expect
                 /\ Len(last.ret.items) = Cardinality(expect)
                 /\ \A i, j \in 1..Len(last.ret.items) :
                       i < j => MapIndex(menuItems, last.ret.items[i].id)
                                   < MapIndex(menuItems, last.ret.items[j].id)

\* a search returned several entries, one of them disabled
C17_Witness ==
    /\ last.cmd = "search" /\ last.ret.kind = "Results"
    /\ Len(last.ret.items) >= 2
    /\ \E i \in 1..Len(last.ret.items) : ~last.ret.items[i].enabled

ReadingCmds == {"menu", "list", "search", "category.list", "suggest"}

\* C18: menu, menu.list, menu.search, menu.category.list and menu.suggest
\* leave the store as it was, for every caller and argument: the same
\* ids, field values and traversal order.
C18_ReadersKeepStore ==
    [][ last'.cmd \in ReadingCmds => menuItems' = menuItems ]_vars

\* a listing came out in another order than the store holds its entries
C18_Witness ==
    /\ last.cmd = "list" /\ last.ret.kind = "List"
    /\ Len(menuItems) >= 2
    /\ last.ret.items # MapValues(menuItems)
    /\ Range(last.ret.items) = Range(MapValues(menuItems))

\* the menu command used the image branch and the renderer was absent or
\* one of its calls threw
RenderFailure(l) ==
    /\ l.cmd = "menu"
    /\ l.render \in RenderOutcomes \ {"ok"}

\* C20: when the image is asked for and the renderer is absent or a call
\* on it (page, setViewport, setContent, screenshot, close) throws, the
\* menu command returns a fallback message and no error, store and
\* configuration are unchanged, no call on the renderer is made twice, and
\* once the reply is sent the state is the one before the request.
C20_RenderFailureIsolated ==
    [][ /\ RenderFailure(last') =>
              /\ last = NoLast
              /\ last'.ret.kind =
                    IF last'.render = "absent" THEN "ImageUnavailable" ELSE "RenderFailed"
              /\ UNCHANGED <<variant, config, menuItems, now, disposed>>
              /\ last'.render # "absent" =>
                    /\ \A i, j \in 1..Len(last'.ret.calls) :
                          last'.ret.calls[i] = last'.ret.calls[j] => i = j
                    /\ last'.render \in Range(last'.ret.calls)
        /\ RenderFailure(last) =>
              /\ last' = NoLast
              /\ UNCHANGED <<variant, config, menuItems, now, disposed>> ]_vars

\* the page was rendered and closing it threw
C20_Witness ==
    /\ RenderFailure(last) /\ last.render = "close"
    /\ last.ret.kind = "RenderFailed"
    /\ last.ret.calls = RenderSteps

\* the fields a resumed call sets, and the values it sets them to
Written(call, cur) ==
    CASE call.cmd = "toggle" -> [cur EXCEPT !.enabled = ~cur.enabled]
      [] call.cmd = "edit" -> [cur EXCEPT !.name = Val(call.opts.name)]
      [] call.cmd = "category.change" -> [cur EXCEPT !.category = call.newCategory]

\* C19: however the handlers interleave at their awaits, a mutating
\* handler that resumes acts on the store as it is at that moment: the
\* entry it writes is the current entry with only its own fields changed,
\* every other entry and the order are kept (no update made since its call
\* is lost), a delete removes only its entry, a handler that is called or
\* suspended changes nothing, and the page of a menu that awaited the
\* renderer is the page of the store as it was at the call.
C19_AtomicReadModifyWrite ==
    [][ /\ menuItems' # menuItems => last'.cmd = "resumed"
        /\ last'.cmd = "resumed" =>
              LET call == last'.call
                  cur == MapGet(menuItems, call.id)
              IN  IF call.cmd = "menu"
                  THEN /\ menuItems' = menuItems
                       /\ call.ret = MenuBrowse(last'.seen, config, call.opt,
                                                IF call.render = "ok" THEN "ok" ELSE "screenshot")
                  ELSE IF last'.gate # "pass" \/ cur = Absent
                  THEN /\ menuItems' = menuItems
                       /\ call.ret.kind \in {"PermissionDenied", "NotFound"}
                  ELSE IF call.cmd = "delete"
                  THEN /\ MapKeys(menuItems') = MapKeys(MapDelete(menuItems, call.id))
                       /\ \A k \in KeySet(menuItems') :
                             MapGet(menuItems', k) = MapGet(menuItems, k)
                  ELSE /\ MapKeys(menuItems') = MapKeys(menuItems)
                       /\ \A k \in KeySet(menuItems) \ {call.id} :
                             MapGet(menuItems', k) = MapGet(menuItems, k)
                       /\ MapGet(menuItems', call.id) = Some(Written(call, Val(cur))) ]_vars

\* a toggle resumed after an edit that was made since the toggle was
\* called: the entry carries the edit and the toggle
C19_Witness ==
    /\ last.cmd = "resumed" /\ last.call.cmd = "toggle"
    /\ last.call.ret.kind \in {"Enabled", "Disabled"}
    /\ Len(pending) > 0
    /\ LET was == Val(MapGet(last.seen, last.call.id))
           is == Val(MapGet(menuItems, last.call.id))
       IN  /\ was.name # <<"X">> /\ is.name = <<"X">>
           /\ is.enabled # was.enabled

\* the return values that report a failure
FailureKinds == {"Validation", "PermissionDenied", "NotFound", "Throws"}

\* C21: menu.add with an empty name or command returns the validation
\* message for every caller and every store, before the permission is
\* tested and with the store untouched; and every mutating command that
\* returns a failure leaves the store as it was.
C21_FailuresBeforeMutation ==
    [][ /\ (last'.cmd = "add" /\ (Len(last'.name) = 0 \/ Len(last'.command) = 0))
              => /\ last'.ret = Ret("Validation", <<>>)
                 /\ last'.gate = "none"
                 /\ menuItems' = menuItems
        /\ (last'.cmd \in MutatingCmds /\ last'.ret.kind \in FailureKinds)
              => menuItems' = menuItems ]_vars

\* a caller whom the permission test would refuse added without a name
\* and got the validation message
C21_Witness ==
    /\ last.cmd = "add" /\ Len(last.name) = 0
    /\ last.permission = "false"
    /\ last.ret.kind = "Validation"
    /\ Len(menuItems) > 0

\* the callers the handlers turn away: no userId, or checkPermission
\* settles to false
Refused ==
    { c \in Callers : ~HasUserId(c.session)
                         \/ ~CheckPermission(c.session, c.test).value }

\* the returns of the four commands on an id, for one caller and store
IdResponses(m, c, id) ==
    { MenuToggle(m, variant, c.session, c.test, id).ret,
      MenuDelete(m, variant, c.session, c.test, id).ret,
      MenuEdit(m, variant, c.session, c.test, id,
               [NoOpts EXCEPT !.name = Some(<<"X">>)]).ret,
      MenuCategoryChange(m, variant, c.session, c.test, id, <<"t">>).ret }

\* what menu.add returns to one caller on one store
AddResponse(m, c, a) ==
    MenuAdd(m, variant, c.session, c.test, a.name, a.command, NoOpts, now).ret

\* C22: whenever a command can be taken up, for every refused caller,
\* with or without a userId, every id argument and every store (the
\* current one, the empty one, and so any two), each mutating command on
\* an id returns the one permission-denied message; menu.add returns to a
\* refused caller a message that its arguments alone decide; and the
\* refused caller of the command that ran got that message.
C22_DenialIndependentOfStore ==
    /\ Idle =>
          /\ \A c \in Refused, id \in IdArgs :
                /\ IdResponses(menuItems, c, id) = {Denied}
                /\ IdResponses(<<>>, c, id) = {Denied}
          /\ \A c \in Refused, a \in AddArgs :
                /\ AddResponse(menuItems, c, a) = AddResponse(<<>>, c, a)
                /\ (Len(a.name) > 0 /\ Len(a.command) > 0) =>
                      AddResponse(menuItems, c, a) = Denied
    /\ (last.cmd \in MutatingCmds \ {"add"} /\ Unauthorized(last)) => last.ret = Denied

\* a caller with a userId whom the permission test refuses asked to delete
\* an id the store holds, beside an id it does not hold
C22_Witness ==
    /\ last.cmd = "delete" /\ last.userId # "" /\ last.permission = "false"
    /\ MapHas(menuItems, last.id) /\ ~MapHas(menuItems, <<"z">>)
    /\ last.ret = Denied

\* C23: after an authorized menu.edit of an existing id, each of name,
\* description, command, category and order that the request supplied
\* holds the supplied value.
C23_SuppliedFieldsHold ==
    [][ (last'.cmd = "edit" /\ Authorized(last') /\ MapHas(menuItems, last'.id))
            => \A f \in EditFields :
                  IsSome(last'.opts[f]) =>
                      Val(MapGet(menuItems', last'.id))[f] = Val(last'.opts[f]) ]_vars

\* the ids the menu command shows for some of its options
BrowseIds(m) ==
    UNION { Range(Ids(Shown(MenuBrowse(m, config, opt, "absent")))) : opt \in MenuOptsPlain }

\* the entries menu.list shows without a category
ListItems(m) ==
    LET ret == MenuList(m, Absent).ret
    IN  IF ret.kind = "List" THEN Range(ret.items) ELSE {}

\* the entries menu.search shows for a keyword
SearchItems(m, keyword) ==
    LET ret == MenuSearch(m, keyword).ret
    IN  IF ret.kind = "Results" THEN Range(ret.items) ELSE {}

\* C24: an authorized menu.toggle of an existing id inverts the entry's
\* enabled flag and changes no other field, no other entry and not the
\* order; a second toggle of the id restores the store; and an entry
\* toggled to disabled is in no menu output while menu.list and
\* menu.search for its name still show it.
C24_ToggleInverts ==
    [][ (last'.cmd = "toggle" /\ Authorized(last') /\ MapHas(menuItems, last'.id))
            => LET id == last'.id
                   old == Val(MapGet(menuItems, id))
                   new == Val(MapGet(menuItems', id))
                   session == [userId |-> last'.userId, authority |-> last'.authority]
               IN  /\ new = [old EXCEPT !.enabled = ~old.enabled]
                   /\ MapKeys(menuItems') = MapKeys(menuItems)
                   /\ \A i \in 1..Len(menuItems) :
                         menuItems[i].key # id => menuItems'[i] = menuItems[i]
                   /\ last'.ret.kind = IF new.enabled THEN "Enabled" ELSE "Disabled"
                   /\ MenuToggle(menuItems', variant, session, last'.test, id).store
                         = menuItems
                   /\ ~new.enabled =>
                         /\ id \notin BrowseIds(menuItems')
                         /\ new \in ListItems(menuItems')
                         /\ new \in SearchItems(menuItems', new.name) ]_vars

\* an entry was toggled to disabled beside an entry that the menu shows
C24_Witness ==
    /\ last.cmd = "toggle" /\ last.ret.kind = "Disabled"
    /\ ~Val(MapGet(menuItems, last.id)).enabled
    /\ BrowseIds(menuItems) # {}
    /\ Val(MapGet(menuItems, last.id)) \in ListItems(menuItems)

\* C25: the entry an authorized menu.add creates is enabled, has the
\* supplied category or else the default category, the supplied
\* description or else the placeholder, and the supplied order, whatever
\* integer it is, or else the size of the store before the insertion plus
\* one.
C25_AddDefaults ==
    [][ (last'.cmd = "add" /\ last'.ret.kind = "Added")
            => LET new == Val(MapGet(menuItems', last'.ret.args[2]))
                   opts == last'.opts
               IN  /\ new.enabled
                   /\ new.name = last'.name /\ new.command = last'.command
                   /\ new.category = IF IsSome(opts.category) THEN Val(opts.category)
                                      ELSE DefaultCategory
                   /\ new.description = IF IsSome(opts.description)
                                         THEN Val(opts.description)
                                         ELSE PlaceholderDescription
                   /\ new.order = IF IsSome(opts.order) THEN Val(opts.order)
                                   ELSE MapSize(menuItems) + 1 ]_vars

====
